---- MODULE Spec2Model ----
(***************************************************************************)
(* The views reducer of pdf_game/reducer.py: reduce_views, the reference   *)
(* graph built by build_fingerprinted_pages, compute_fingerprint and the   *)
(* FakePdfRecorder whose recorded calls are the fingerprint.               *)
(*                                                                         *)
(* A page (GameView) is a number 1..n; 0 stands for None.  A               *)
(* FingerprintedPage is a position of the input list: wrapper w wraps the  *)
(* page game_views[w].                                                     *)
(***************************************************************************)
EXTENDS Integers, Sequences, FiniteSets, TLC

\* Bounds of the explored inputs.
MaxPages == 3
MaxContent == 3
MaxRuns == 2

\* reducer.py:20
MIN_REMOVED_VIEWS_TO_GO_ON == 25

\* The action slots of a GameView (the keys of game_view.actions), in the
\* order in which .values() yields them.
Slots == 1..2

VARIABLES
    content,                  \* page -> what the page draws (opaque to the reducer)
    actions,                  \* page -> [slot -> page or 0]: game_view.actions
    game_views,               \* the list handed to reduce_views
    multipass,                \* the multipass argument
    min_removed,              \* the value of MIN_REMOVED_VIEWS_TO_GO_ON in force
    own_page_id,              \* page -> the identifier assign_page_ids gave it (0: none)
    page_id_src,              \* page -> the page its identifier was redirected to (0: none)
    fingerprint,              \* wrapper -> FingerprintedPage.fingerprint
    incoming_pages,           \* wrapper -> FingerprintedPage.incoming_pages
    fingerprinted_pages,      \* the working list (wrappers)
    gv_per_page_fingerprint,  \* fingerprint -> representative page, of the pass
    filtered_fp_pages,        \* the filtered list of the pass (wrappers)
    idx,                      \* position of the for loop in fingerprinted_pages
    pass_number,
    total_views_removed,
    views_removed,
    pc,                       \* where reduce_views stands
    result,                   \* the list reduce_views returned
    run,                      \* how many times reduce_views has been called
    fake_pdf,                 \* a FakePdfRecorder driven by a caller of its own
    handles,                  \* what the add_link calls on fake_pdf returned, in call order
    intended,                 \* add_link call -> the page the caller bound its handle to (0: none)
    expected,                 \* per link call on fake_pdf: the page its caller intended
    disciplined               \* every add_link so far came after the set_link of the handle before

vars == <<content, actions, game_views, multipass, min_removed, own_page_id,
          page_id_src, fingerprint, incoming_pages, fingerprinted_pages,
          gv_per_page_fingerprint, filtered_fp_pages, idx, pass_number,
          total_views_removed, views_removed, pc, result, run,
          fake_pdf, handles, intended, expected, disciplined>>

\* The state of the recorder driven on its own; reduce_views makes a fresh
\* recorder for every fingerprint and does not touch this one.
recorder_vars == <<fake_pdf, handles, intended, expected, disciplined>>

Range(s) == {s[i] : i \in DOMAIN s}

Pages == DOMAIN content

----------------------------------------------------------------------------
(* GameView.page_id and GameView.page_id_from *)

\* game_view.page_id: the identifier of the page the view was redirected to,
\* if any, else its own.
RECURSIVE page_id(_, _, _)
page_id(src, own, p) ==
    IF src[p] = 0 THEN own[p] ELSE page_id(src, own, src[p])

\* fp_page.game_view.page_id_from(existing_matching_gv)
page_id_from(src, p, other) == [src EXCEPT ![p] = other]

\* assign_page_ids(game_views, assign_reverse_id=False): pairwise distinct
\* identifiers, in page order.
assign_page_ids(pages) == [p \in pages |-> p]

----------------------------------------------------------------------------
(* FakePdfRecorder *)

FakePdfRecorder == [calls |-> <<>>, links |-> <<>>]

add_page(rec) == [rec EXCEPT !.calls = Append(@, <<"add_page">>)]

text(rec, txt) == [rec EXCEPT !.calls = Append(@, <<"text", txt>>)]

add_link(rec) == Cardinality(DOMAIN rec.links) + 1

\* Mutant of set_link: the handle is bound to the default page, -1.
set_link_DefaultPage(rec, link, page) == [rec EXCEPT !.links = (link :> -1) @@ @]

set_link(rec, link, page) == [rec EXCEPT !.links = (link :> page) @@ @]

\* Mutant of link: the hot zone is recorded without the page it leads to.
link_NoTarget(rec, x, l) == [rec EXCEPT !.calls = Append(@, <<"link", x, 0>>)]

link(rec, x, l) == [rec EXCEPT !.calls = Append(@, <<"link", x, rec.links[l]>>)]

\* hash(tuple(self._calls)); the hash is taken to be free of collisions, so
\* the fingerprint is the tuple of the recorded calls.
get_fingerprint(rec) == rec.calls

----------------------------------------------------------------------------
(* render_page and compute_fingerprint *)

\* The link of one action slot: a handle is allocated, bound to the
\* target's current page_id, and the hot zone is emitted.
render_action(rec, src, own, acts, s) ==
    IF acts[s] = 0 THEN rec
    ELSE LET l == add_link(rec)
         IN  link(set_link(rec, l, page_id(src, own, acts[s])), s, l)

RECURSIVE render_actions(_, _, _, _, _)
render_actions(rec, src, own, acts, s) ==
    IF s \notin Slots THEN rec
    ELSE render_actions(render_action(rec, src, own, acts, s), src, own, acts, s + 1)

\* render_page(fake_pdf, game_view, render_victory_noop)
render_page(rec, src, own, p) ==
    render_actions(text(add_page(rec), content[p]), src, own, actions[p], 1)

compute_fingerprint(src, own, p) ==
    get_fingerprint(render_page(FakePdfRecorder, src, own, p))

----------------------------------------------------------------------------
(* build_fingerprinted_pages *)

\* fp_pages_per_page_id: page_id -> wrapper; of two wrappers with one
\* page_id the dict comprehension keeps the later one.
fp_pages_per_page_id(src, own, gvs) ==
    LET ids == {page_id(src, own, gvs[w]) : w \in DOMAIN gvs}
    IN  [i \in ids |->
            CHOOSE w \in DOMAIN gvs :
                /\ page_id(src, own, gvs[w]) = i
                /\ \A v \in DOMAIN gvs : page_id(src, own, gvs[v]) = i => v <= w]

\* The (wrapper, slot) pairs in the order of the two nested loops of step 2.
ActionSeq(gvs) ==
    LET ns == Cardinality(Slots)
    IN  [k \in 1..(Len(gvs) * ns) |-> <<((k - 1) \div ns) + 1, ((k - 1) % ns) + 1>>]

\* The page a (wrapper, slot) pair links to, 0 when the slot is empty.
ActionTarget(gvs, e) == actions[gvs[e[1]]][e[2]]

\* A link to a page whose page_id no wrapper has: the dict lookup fails.
build_raises(src, own, gvs) ==
    \E k \in DOMAIN ActionSeq(gvs) :
        LET t == ActionTarget(gvs, ActionSeq(gvs)[k])
        IN  /\ t # 0
            /\ page_id(src, own, t) \notin DOMAIN fp_pages_per_page_id(src, own, gvs)

\* Mutant of build_incoming_pages: a page is not put in its own incoming
\* list.
build_incoming_pages_NoSelf(src, own, gvs) ==
    LET per_id == fp_pages_per_page_id(src, own, gvs)
        into(w) == SelectSeq(ActionSeq(gvs), LAMBDA e :
                       /\ ActionTarget(gvs, e) # 0
                       /\ e[1] # w
                       /\ per_id[page_id(src, own, ActionTarget(gvs, e))] = w)
    IN  [w \in DOMAIN gvs |-> [i \in 1..Len(into(w)) |-> into(w)[i][1]]]

\* .incoming_pages of every wrapper: the wrappers appended to it, in order.
build_incoming_pages(src, own, gvs) ==
    LET per_id == fp_pages_per_page_id(src, own, gvs)
        into(w) == SelectSeq(ActionSeq(gvs), LAMBDA e :
                       /\ ActionTarget(gvs, e) # 0
                       /\ per_id[page_id(src, own, ActionTarget(gvs, e))] = w)
    IN  [w \in DOMAIN gvs |-> [i \in 1..Len(into(w)) |-> into(w)[i][1]]]

\* Step 1: FingerprintedPage(pdf, game_view) for every view of the list.
build_fingerprints(src, own, gvs) ==
    [w \in DOMAIN gvs |-> compute_fingerprint(src, own, gvs[w])]

----------------------------------------------------------------------------
(* The inputs explored *)

Identity(n) == [i \in 1..n |-> i]

NoActions == [s \in Slots |-> 0]

\* Every graph of up to MaxPages pages: any content (the first page has
\* content 1: the reducer only compares contents), any target (or none) in
\* each slot.  The list holds every page once, in page order; when there is
\* room it may also hold one page a second time.  multipass is on or off.
GraphInput ==
    \E n \in 0..MaxPages :
        \E g \in [2..n -> 1..MaxContent], a \in [1..n -> [Slots -> 0..n]] :
            /\ content = [p \in 1..n |-> IF p = 1 THEN 1 ELSE g[p]]
            /\ actions = a
            /\ game_views \in {Identity(n)} \cup
                   {Append(Identity(n), k) : k \in IF n < MaxPages THEN 1..n ELSE {}}
            /\ multipass \in BOOLEAN

\* Enough identical pages without links for a pass to remove
\* MIN_REMOVED_VIEWS_TO_GO_ON of them.
PadCount == MIN_REMOVED_VIEWS_TO_GO_ON + 1

\* k pages of one content, each linking through its first slot to one of
\* targets[p], followed by PadCount pad pages: the first pass removes enough
\* pages for a second one (multipass is on).
PaddedGraph(k, targets) ==
    \E t \in [1..k -> 0..(k + 2)] :
        /\ \A p \in 1..k : t[p] \in targets[p]
        /\ content = [p \in 1..(k + PadCount) |-> IF p <= k THEN 1 ELSE 0]
        /\ actions = [p \in 1..(k + PadCount) |->
                         IF p <= k THEN [NoActions EXCEPT ![1] = t[p]] ELSE NoActions]
        /\ game_views = Identity(k + PadCount)
        /\ multipass = TRUE

\* MaxPages + 1 such pages linking to nothing, to any of them or to one of
\* the first two pad pages; or MaxPages + 2 of them linking to nothing, to
\* the first page, to the next page of the list or to one of the first two
\* pad pages.
PaddedInput ==
    LET k == MaxPages + 1
        AnyTarget == [p \in 1..k |-> 0..(k + 2)]
        NextOrPad == [p \in 1..(k + 1) |-> {0, 1, p + 1, k + 2, k + 3}]
    IN  PaddedGraph(k, AnyTarget) \/ PaddedGraph(k + 1, NextOrPad)

\* Scenario C of the specification: ScenarioCSize terminal pages of one
\* content and no links, each the target of one upstream page; the upstream
\* pages have pairwise distinct content.
ScenarioCSize == 30

ScenarioCContent ==
    [p \in 1..(2 * ScenarioCSize) |-> IF p <= ScenarioCSize THEN p ELSE 0]

ScenarioCActions ==
    [p \in 1..(2 * ScenarioCSize) |->
        IF p <= ScenarioCSize THEN [NoActions EXCEPT ![1] = p + ScenarioCSize] ELSE NoActions]

\* The upstream pages first, or the terminal pages first; multipass on or off.
ScenarioCInput ==
    /\ content = ScenarioCContent
    /\ actions = ScenarioCActions
    /\ game_views \in
           {Identity(2 * ScenarioCSize),
            [i \in 1..(2 * ScenarioCSize) |->
                IF i <= ScenarioCSize THEN i + ScenarioCSize ELSE i - ScenarioCSize]}
    /\ multipass \in BOOLEAN

Input == GraphInput \/ PaddedInput \/ ScenarioCInput

----------------------------------------------------------------------------
(* reduce_views *)

InitWith(threshold) ==
    /\ Input
    /\ min_removed = threshold
    /\ own_page_id = [p \in Pages |-> 0]
    /\ page_id_src = [p \in Pages |-> 0]
    /\ fingerprint = <<>>
    /\ incoming_pages = <<>>
    /\ fingerprinted_pages = <<>>
    /\ gv_per_page_fingerprint = <<>>
    /\ filtered_fp_pages = <<>>
    /\ idx = 1
    /\ pass_number = 1
    /\ total_views_removed = 0
    /\ views_removed = 0
    /\ pc = "start"
    /\ result = <<>>
    /\ run = 1
    /\ fake_pdf = FakePdfRecorder
    /\ handles = <<>>
    /\ intended = <<>>
    /\ expected = <<>>
    /\ disciplined = TRUE

Init == InitWith(MIN_REMOVED_VIEWS_TO_GO_ON)

\* Lines 24-33: identifiers are assigned, the FingerprintedPages are built
\* and the first pass starts with an empty map and an empty filtered list.
Begin ==
    /\ pc = "start"
    /\ own_page_id' = assign_page_ids(Pages)
    /\ pass_number' = 1
    /\ total_views_removed' = 0
    /\ views_removed' = 0
    /\ gv_per_page_fingerprint' = <<>>
    /\ filtered_fp_pages' = <<>>
    /\ idx' = 1
    /\ IF build_raises(page_id_src, own_page_id', game_views)
       THEN /\ pc' = "KeyError"
            /\ fingerprint' = build_fingerprints(page_id_src, own_page_id', game_views)
            /\ UNCHANGED <<incoming_pages, fingerprinted_pages>>
       ELSE /\ pc' = "for"
            /\ fingerprint' = build_fingerprints(page_id_src, own_page_id', game_views)
            /\ incoming_pages' = build_incoming_pages(page_id_src, own_page_id', game_views)
            /\ fingerprinted_pages' = Identity(Len(game_views))
    /\ UNCHANGED recorder_vars
    /\ UNCHANGED <<content, actions, game_views, multipass, min_removed,
                   page_id_src, result, run>>

\* The wrapper the for loop is at, and its game_view.
fp_page == fingerprinted_pages[idx]
game_view == game_views[fp_page]

InLoop == pc = "for" /\ idx <= Len(fingerprinted_pages)

\* Mutant of existing_matching_gv: the lookup ignores the fingerprint and
\* finds the first page the pass kept.
existing_matching_gv_FirstKept ==
    IF filtered_fp_pages = <<>> THEN 0 ELSE game_views[filtered_fp_pages[1]]

\* gv_per_page_fingerprint.get(fp_page.fingerprint), 0 for None.
existing_matching_gv ==
    IF fingerprint[fp_page] \in DOMAIN gv_per_page_fingerprint
    THEN gv_per_page_fingerprint[fingerprint[fp_page]]
    ELSE 0

\* Mutant of Keep: the page is kept but not recorded in the map.
Keep_NoRecord ==
    /\ pc = "for" /\ idx <= Len(fingerprinted_pages)
    /\ IF fingerprint[fingerprinted_pages[idx]] \in DOMAIN gv_per_page_fingerprint
       THEN FALSE ELSE TRUE
    /\ filtered_fp_pages' = Append(filtered_fp_pages, fingerprinted_pages[idx])
    /\ idx' = idx + 1
    /\ UNCHANGED recorder_vars
    /\ UNCHANGED <<content, actions, game_views, multipass, min_removed,
                   own_page_id, page_id_src, fingerprint, incoming_pages,
                   fingerprinted_pages, gv_per_page_fingerprint, pass_number,
                   total_views_removed, views_removed, pc, result, run>>

\* Mutant of Keep: the kept page is put at the head of the filtered list.
Keep_Prepends ==
    /\ pc = "for" /\ idx <= Len(fingerprinted_pages)
    /\ IF fingerprint[fingerprinted_pages[idx]] \in DOMAIN gv_per_page_fingerprint
       THEN FALSE ELSE TRUE
    /\ gv_per_page_fingerprint' =
           (fingerprint[fingerprinted_pages[idx]] :> game_views[fingerprinted_pages[idx]])
               @@ gv_per_page_fingerprint
    /\ filtered_fp_pages' = <<fingerprinted_pages[idx]>> \o filtered_fp_pages
    /\ idx' = idx + 1
    /\ UNCHANGED recorder_vars
    /\ UNCHANGED <<content, actions, game_views, multipass, min_removed,
                   own_page_id, page_id_src, fingerprint, incoming_pages,
                   fingerprinted_pages, pass_number, total_views_removed,
                   views_removed, pc, result, run>>

\* Mutant of Keep: a page may be kept whether or not its fingerprint is in
\* the map.
Keep_Always ==
    /\ pc = "for" /\ idx <= Len(fingerprinted_pages)
    /\ gv_per_page_fingerprint' =
           (fingerprint[fingerprinted_pages[idx]] :> game_views[fingerprinted_pages[idx]])
               @@ gv_per_page_fingerprint
    /\ filtered_fp_pages' = Append(filtered_fp_pages, fingerprinted_pages[idx])
    /\ idx' = idx + 1
    /\ UNCHANGED recorder_vars
    /\ UNCHANGED <<content, actions, game_views, multipass, min_removed,
                   own_page_id, page_id_src, fingerprint, incoming_pages,
                   fingerprinted_pages, pass_number, total_views_removed,
                   views_removed, pc, result, run>>

\* Lines 46-48: the first page seen with its fingerprint is the
\* representative and stays in the filtered list.
Keep ==
    /\ InLoop
    /\ existing_matching_gv = 0
    /\ gv_per_page_fingerprint' =
           (fingerprint[fp_page] :> game_view) @@ gv_per_page_fingerprint
    /\ filtered_fp_pages' = Append(filtered_fp_pages, fp_page)
    /\ idx' = idx + 1
    /\ UNCHANGED recorder_vars
    /\ UNCHANGED <<content, actions, game_views, multipass, min_removed,
                   own_page_id, page_id_src, fingerprint, incoming_pages,
                   fingerprinted_pages, pass_number, total_views_removed,
                   views_removed, pc, result, run>>

\* Lines 44-45: the fingerprints after the pages of incoming were recomputed
\* under the redirections src.
refingerprint(src, incoming) ==
    [w \in DOMAIN fingerprint |->
        IF w \in Range(incoming)
        THEN compute_fingerprint(src, own_page_id, game_views[w])
        ELSE fingerprint[w]]

\* Mutant of Merge: the duplicate is dropped without taking the identifier
\* of the representative.
Merge_NoRedirect ==
    /\ InLoop
    /\ existing_matching_gv # 0
    /\ page_id(page_id_src, own_page_id, game_view)
           # page_id(page_id_src, own_page_id, existing_matching_gv)
    /\ fingerprint' = refingerprint(page_id_src, incoming_pages[fp_page])
    /\ idx' = idx + 1
    /\ UNCHANGED recorder_vars
    /\ UNCHANGED <<content, actions, game_views, multipass, min_removed,
                   own_page_id, page_id_src, incoming_pages, fingerprinted_pages,
                   gv_per_page_fingerprint, filtered_fp_pages, pass_number,
                   total_views_removed, views_removed, pc, result, run>>

\* Mutant of Merge: the representative takes the identifier of the
\* duplicate.
Merge_RedirectsRepresentative ==
    /\ pc = "for" /\ idx <= Len(fingerprinted_pages)
    /\ existing_matching_gv # 0
    /\ page_id(page_id_src, own_page_id, game_view)
           # page_id(page_id_src, own_page_id, existing_matching_gv)
    /\ page_id_src' = page_id_from(page_id_src, existing_matching_gv, game_view)
    /\ fingerprint' = refingerprint(page_id_src', incoming_pages[fp_page])
    /\ idx' = idx + 1
    /\ UNCHANGED recorder_vars
    /\ UNCHANGED <<content, actions, game_views, multipass, min_removed,
                   own_page_id, incoming_pages, fingerprinted_pages,
                   gv_per_page_fingerprint, filtered_fp_pages, pass_number,
                   total_views_removed, views_removed, pc, result, run>>

\* Mutant of Merge: the redirected duplicate stays in the filtered list.
Merge_KeepsDuplicate ==
    /\ pc = "for" /\ idx <= Len(fingerprinted_pages)
    /\ existing_matching_gv # 0
    /\ page_id(page_id_src, own_page_id, game_view)
           # page_id(page_id_src, own_page_id, existing_matching_gv)
    /\ page_id_src' = page_id_from(page_id_src, game_view, existing_matching_gv)
    /\ fingerprint' = refingerprint(page_id_src', incoming_pages[fp_page])
    /\ filtered_fp_pages' = Append(filtered_fp_pages, fp_page)
    /\ idx' = idx + 1
    /\ UNCHANGED recorder_vars
    /\ UNCHANGED <<content, actions, game_views, multipass, min_removed,
                   own_page_id, incoming_pages, fingerprinted_pages,
                   gv_per_page_fingerprint, pass_number,
                   total_views_removed, views_removed, pc, result, run>>

\* Lines 37-45: a duplicate takes the identifier of the representative, and
\* the pages linking to it are fingerprinted again.
Merge ==
    /\ InLoop
    /\ existing_matching_gv # 0
    /\ page_id(page_id_src, own_page_id, game_view)
           # page_id(page_id_src, own_page_id, existing_matching_gv)
    /\ page_id_src' = page_id_from(page_id_src, game_view, existing_matching_gv)
    /\ fingerprint' = refingerprint(page_id_src', incoming_pages[fp_page])
    /\ idx' = idx + 1
    /\ UNCHANGED recorder_vars
    /\ UNCHANGED <<content, actions, game_views, multipass, min_removed,
                   own_page_id, incoming_pages, fingerprinted_pages,
                   gv_per_page_fingerprint, filtered_fp_pages, pass_number,
                   total_views_removed, views_removed, pc, result, run>>

\* Mutant of AssertFail: the page is skipped and the pass goes on.
AssertFail_GoesOn ==
    /\ pc = "for" /\ idx <= Len(fingerprinted_pages)
    /\ existing_matching_gv # 0
    /\ page_id(page_id_src, own_page_id, game_view)
           = page_id(page_id_src, own_page_id, existing_matching_gv)
    /\ idx' = idx + 1
    /\ UNCHANGED recorder_vars
    /\ UNCHANGED <<content, actions, game_views, multipass, min_removed,
                   own_page_id, page_id_src, fingerprint, incoming_pages,
                   fingerprinted_pages, gv_per_page_fingerprint,
                   filtered_fp_pages, pass_number, total_views_removed,
                   views_removed, pc, result, run>>

\* Line 42: assert ..., 'Prevent infinite loop'
AssertFail ==
    /\ InLoop
    /\ existing_matching_gv # 0
    /\ page_id(page_id_src, own_page_id, game_view)
           = page_id(page_id_src, own_page_id, existing_matching_gv)
    /\ pc' = "AssertionError"
    /\ UNCHANGED recorder_vars
    /\ UNCHANGED <<content, actions, game_views, multipass, min_removed,
                   own_page_id, page_id_src, fingerprint, incoming_pages,
                   fingerprinted_pages, gv_per_page_fingerprint,
                   filtered_fp_pages, idx, pass_number, total_views_removed,
                   views_removed, result, run>>

\* Mutant of Stops: the multipass argument is not looked at.
Stops_IgnoresMultipass(removed) ==
    removed = 0 \/ removed < min_removed

\* Mutant of Stops: the threshold is not looked at.
Stops_NoThreshold(removed) ==
    removed = 0 \/ ~multipass

\* Line 53: the condition of the break.
Stops(removed) ==
    removed = 0 \/ ~multipass \/ removed < min_removed

\* Mutant of EndPass: the next pass starts with the map of the pass that
\* ended.
EndPass_KeepsMap ==
    /\ pc = "for"
    /\ idx > Len(fingerprinted_pages)
    /\ views_removed' = Len(fingerprinted_pages) - Len(filtered_fp_pages)
    /\ total_views_removed' = total_views_removed + views_removed'
    /\ pass_number' = pass_number + 1
    /\ fingerprinted_pages' = filtered_fp_pages
    /\ IF Stops(views_removed')
       THEN /\ pc' = "return"
            /\ UNCHANGED <<filtered_fp_pages, idx>>
       ELSE /\ pc' = "for"
            /\ filtered_fp_pages' = <<>>
            /\ idx' = 1
    /\ UNCHANGED recorder_vars
    /\ UNCHANGED <<content, actions, game_views, multipass, min_removed,
                   own_page_id, page_id_src, fingerprint, incoming_pages,
                   gv_per_page_fingerprint, result, run>>

\* Mutant of EndPass: the total is the count of the last pass.
EndPass_CountsLastPass ==
    /\ pc = "for"
    /\ idx > Len(fingerprinted_pages)
    /\ views_removed' = Len(fingerprinted_pages) - Len(filtered_fp_pages)
    /\ total_views_removed' = views_removed'
    /\ pass_number' = pass_number + 1
    /\ fingerprinted_pages' = filtered_fp_pages
    /\ IF Stops(views_removed')
       THEN /\ pc' = "return"
            /\ UNCHANGED <<gv_per_page_fingerprint, filtered_fp_pages, idx>>
       ELSE /\ pc' = "for"
            /\ gv_per_page_fingerprint' = <<>>
            /\ filtered_fp_pages' = <<>>
            /\ idx' = 1
    /\ UNCHANGED recorder_vars
    /\ UNCHANGED <<content, actions, game_views, multipass, min_removed,
                   own_page_id, page_id_src, fingerprint, incoming_pages,
                   result, run>>

\* Lines 49-54, and lines 30-33 of the next pass when the loop goes on.
EndPass ==
    /\ pc = "for"
    /\ idx > Len(fingerprinted_pages)
    /\ views_removed' = Len(fingerprinted_pages) - Len(filtered_fp_pages)
    /\ total_views_removed' = total_views_removed + views_removed'
    /\ pass_number' = pass_number + 1
    /\ fingerprinted_pages' = filtered_fp_pages
    /\ IF Stops(views_removed')
       THEN /\ pc' = "return"
            /\ UNCHANGED <<gv_per_page_fingerprint, filtered_fp_pages, idx>>
       ELSE /\ pc' = "for"
            /\ gv_per_page_fingerprint' = <<>>
            /\ filtered_fp_pages' = <<>>
            /\ idx' = 1
    /\ UNCHANGED recorder_vars
    /\ UNCHANGED <<content, actions, game_views, multipass, min_removed,
                   own_page_id, page_id_src, fingerprint, incoming_pages,
                   result, run>>

\* Lines 55-56: the percentage is printed (a division by len(game_views))
\* and the game views of the working list are returned.
Return ==
    /\ pc = "return"
    /\ IF Len(game_views) = 0
       THEN pc' = "ZeroDivisionError" /\ UNCHANGED result
       ELSE /\ pc' = "done"
            /\ result' = [i \in DOMAIN fingerprinted_pages |->
                              game_views[fingerprinted_pages[i]]]
    /\ UNCHANGED recorder_vars
    /\ UNCHANGED <<content, actions, game_views, multipass, min_removed,
                   own_page_id, page_id_src, fingerprint, incoming_pages,
                   fingerprinted_pages, gv_per_page_fingerprint,
                   filtered_fp_pages, idx, pass_number, total_views_removed,
                   views_removed, run>>

\* The caller hands the returned list to reduce_views again.
Rerun ==
    /\ pc = "done"
    /\ run < MaxRuns
    /\ run' = run + 1
    /\ game_views' = result
    /\ pc' = "start"
    /\ UNCHANGED recorder_vars
    /\ UNCHANGED <<content, actions, multipass, min_removed, own_page_id,
                   page_id_src, fingerprint, incoming_pages,
                   fingerprinted_pages, gv_per_page_fingerprint,
                   filtered_fp_pages, idx, pass_number, total_views_removed,
                   views_removed, result>>

Next ==
    \/ Begin
    \/ Keep
    \/ Merge
    \/ AssertFail
    \/ EndPass
    \/ Return
    \/ Rerun

Spec == Init /\ [][Next]_vars

\* reduce_views with the threshold set to 0: the loop stops only on a pass
\* that removes nothing.
InitNoFloor == InitWith(0)

SpecNoFloor == InitNoFloor /\ [][Next]_vars

----------------------------------------------------------------------------
(* FakePdfRecorder driven by any caller *)

\* Bounds of the explored call sequences.
MaxLinks == 3
MaxTargets == 2
MaxCalls == 3

\* A fresh recorder, and no reduce_views call in progress.
InitRecorder ==
    /\ content = <<>>
    /\ actions = <<>>
    /\ game_views = <<>>
    /\ multipass = FALSE
    /\ min_removed = MIN_REMOVED_VIEWS_TO_GO_ON
    /\ own_page_id = <<>>
    /\ page_id_src = <<>>
    /\ fingerprint = <<>>
    /\ incoming_pages = <<>>
    /\ fingerprinted_pages = <<>>
    /\ gv_per_page_fingerprint = <<>>
    /\ filtered_fp_pages = <<>>
    /\ idx = 1
    /\ pass_number = 1
    /\ total_views_removed = 0
    /\ views_removed = 0
    /\ pc = "recorder"
    /\ result = <<>>
    /\ run = 1
    /\ fake_pdf = FakePdfRecorder
    /\ handles = <<>>
    /\ intended = <<>>
    /\ expected = <<>>
    /\ disciplined = TRUE

reducer_vars ==
    <<content, actions, game_views, multipass, min_removed, own_page_id,
      page_id_src, fingerprint, incoming_pages, fingerprinted_pages,
      gv_per_page_fingerprint, filtered_fp_pages, idx, pass_number,
      total_views_removed, views_removed, result, run>>

\* Lines 127-128: the caller asks for a link handle.
CallAddLink ==
    /\ pc = "recorder"
    /\ Len(handles) < MaxLinks
    /\ handles' = Append(handles, add_link(fake_pdf))
    /\ intended' = Append(intended, 0)
    /\ disciplined' = (disciplined /\
                          (handles = <<>> \/ handles[Len(handles)] \in DOMAIN fake_pdf.links))
    /\ UNCHANGED <<fake_pdf, expected, pc>>
    /\ UNCHANGED reducer_vars

\* Lines 130-131: the caller binds the handle of its k-th add_link to a page.
CallSetLink ==
    /\ pc = "recorder"
    /\ \E k \in DOMAIN handles, page \in 1..MaxTargets :
           /\ fake_pdf' = set_link(fake_pdf, handles[k], page)
           /\ intended' = [intended EXCEPT ![k] = page]
    /\ UNCHANGED <<handles, expected, disciplined, pc>>
    /\ UNCHANGED reducer_vars

\* Lines 133-135: the caller emits the hot zone of its k-th link; a handle
\* that was never bound is not a key of _links.
CallLink ==
    /\ pc = "recorder"
    /\ Len(fake_pdf.calls) < MaxCalls
    /\ \E k \in DOMAIN handles :
           IF handles[k] \in DOMAIN fake_pdf.links
           THEN /\ fake_pdf' = link(fake_pdf, k, handles[k])
                /\ expected' = Append(expected, intended[k])
                /\ pc' = pc
           ELSE /\ pc' = "KeyError"
                /\ UNCHANGED <<fake_pdf, expected>>
    /\ UNCHANGED <<handles, intended, disciplined>>
    /\ UNCHANGED reducer_vars

NextRecorder ==
    \/ CallAddLink
    \/ CallSetLink
    \/ CallLink

SpecRecorder == InitRecorder /\ [][NextRecorder]_vars

----------------------------------------------------------------------------
(* Vocabulary of the properties *)

\* The current identifier of a page, and its current render trace: what it
\* draws and, slot by slot, the current identifier its link resolves to.
PageId(p) == page_id(page_id_src, own_page_id, p)
RenderTrace(p) ==
    <<content[p], [s \in Slots |-> IF actions[p][s] = 0 THEN 0 ELSE PageId(actions[p][s])]>>

\* The for loop of a pass has gone through the whole working list.
EndOfPass == pc = "for" /\ idx > Len(fingerprinted_pages)

\* reduce_views has left its loop, or has returned.
Stopped == pc \in {"return", "done"}

\* The wrappers that survive: the filtered list at the end of a pass, the
\* working list once the loop is left.
Surviving == IF EndOfPass THEN filtered_fp_pages ELSE fingerprinted_pages

\* The input list holds no page twice.
NoPageTwice ==
    \A i, j \in DOMAIN game_views : game_views[i] = game_views[j] => i = j

\* The position of wrapper w in the working list of the pass.
PosOf(list, w) == CHOOSE i \in DOMAIN list : list[i] = w

----------------------------------------------------------------------------
(* C1: no dangling references *)

\* C1: for an input list without a page listed twice, at the end of every
\* pass and once reduce_views has stopped, every non-empty action slot of
\* every surviving page resolves, through the current page_id of its target,
\* to the page_id of a page of the surviving list.
C1_NoDanglingReferences ==
    (NoPageTwice /\ (EndOfPass \/ Stopped)) =>
        \A w \in Range(Surviving) : \A s \in Slots :
            LET t == actions[game_views[w]][s]
            IN  t # 0 => \E v \in Range(Surviving) : PageId(game_views[v]) = PageId(t)

\* C1 witness: reduce_views has returned, and a surviving page links to a
\* page that was redirected to a page that was itself redirected later.
C1_Witness ==
    /\ pc = "done"
    /\ NoPageTwice
    /\ \E w \in Range(Surviving) : \E s \in Slots :
        LET t == actions[game_views[w]][s]
        IN  /\ t # 0
            /\ page_id_src[t] # 0
            /\ page_id_src[page_id_src[t]] # 0

----------------------------------------------------------------------------
(* C2: merge soundness *)

\* C2: whenever the page the loop is at matches a representative of the map,
\* the current render traces of the two pages are equal: pages whose current
\* traces differ are never merged.
C2_MergeSoundness ==
    (InLoop /\ existing_matching_gv # 0) =>
        RenderTrace(game_view) = RenderTrace(existing_matching_gv)

\* C2 witness: a page is about to be merged into a representative whose
\* stored fingerprint is no longer the one it was recorded under.
C2_Witness ==
    /\ InLoop
    /\ existing_matching_gv # 0
    /\ PageId(game_view) # PageId(existing_matching_gv)
    /\ \E w \in Range(filtered_fp_pages) :
        /\ game_views[w] = existing_matching_gv
        /\ fingerprint[w] # fingerprint[fp_page]

----------------------------------------------------------------------------
(* C3: fingerprint consistency *)

\* The wrappers dropped in the pass that ends.
Dropped == Range(fingerprinted_pages) \ Range(filtered_fp_pages)

\* Wrapper w was fingerprinted again by a merge that came after the
\* evaluation of the wrapper at position i of the working list.
RefingerprintedAfter(w, i) ==
    \E m \in Dropped :
        /\ PosOf(fingerprinted_pages, m) > i
        /\ w \in Range(incoming_pages[m])

----------------------------------------------------------------------------
(* C4: idempotence of convergence *)

\* C4: with multipass on and the threshold at 0, a second call of
\* reduce_views, on the list the first call returned, removes no page.
C4_SecondRunRemovesNothing ==
    (pc = "done" /\ run = 2 /\ multipass) => total_views_removed = 0

----------------------------------------------------------------------------
(* C5: termination *)

Raised == pc \in {"AssertionError", "KeyError", "ZeroDivisionError"}

\* The passes started so far.
PassesStarted == IF pc = "start" THEN 0 ELSE IF pc = "for" THEN pass_number ELSE pass_number - 1

\* C5: for every page list without a page listed twice, reduce_views does
\* not end in an exception, the pass before every further pass removed at
\* least MIN_REMOVED_VIEWS_TO_GO_ON pages, and at most floor(P/25)+1 passes
\* are run for P input pages.
C5_Termination ==
    NoPageTwice =>
        /\ ~Raised
        /\ (pc = "for" /\ pass_number > 1) => views_removed >= MIN_REMOVED_VIEWS_TO_GO_ON
        /\ PassesStarted <= (Len(game_views) \div MIN_REMOVED_VIEWS_TO_GO_ON) + 1

\* The same for the lists that hold at least one page.
C5_NonEmpty == Len(game_views) > 0 => C5_Termination

----------------------------------------------------------------------------
(* C6: first-seen representative, order preserved *)

\* s is a subsequence of t.
RECURSIVE IsSubsequence(_, _)
IsSubsequence(s, t) ==
    IF s = <<>> THEN TRUE
    ELSE IF t = <<>> THEN FALSE
    ELSE IF Head(s) = Head(t) THEN IsSubsequence(Tail(s), Tail(t))
    ELSE IsSubsequence(s, Tail(t))

\* C6: the representative a page is about to be redirected to is the
\* game_view of a wrapper that stands strictly earlier in the working list
\* of the pass and was kept; and the returned list is a subsequence of the
\* input list.
C6_FirstSeenAndOrder ==
    /\ (InLoop /\ existing_matching_gv # 0) =>
           \E j \in 1..(idx - 1) :
               /\ game_views[fingerprinted_pages[j]] = existing_matching_gv
               /\ fingerprinted_pages[j] \in Range(filtered_fp_pages)
    /\ pc = "done" => IsSubsequence(result, game_views)

\* C6 witness: reduce_views returned at least two pages after dropping one
\* that stood before the last of them.
C6_Witness ==
    /\ pc = "done"
    /\ run = 1
    /\ Len(result) >= 2
    /\ \E i \in DOMAIN game_views :
        /\ game_views[i] \notin Range(result)
        /\ i < Len(game_views)

----------------------------------------------------------------------------
(* C7: scenario A *)

\* Page a plays P1, pages b and c play P2 and P3: b and c have the same
\* content and the same actions, which lead to a only; a links to b through
\* one slot and to c through the other.
IsScenarioA(a, b, c) ==
    /\ Pages = {a, b, c}
    /\ Cardinality({a, b, c}) = 3
    /\ content[b] = content[c]
    /\ actions[b] = actions[c]
    /\ Range(actions[b]) \subseteq {0, a}
    /\ a \in Range(actions[b])
    /\ Range(actions[a]) = {b, c}

\* C7: on scenario A, whatever the order of the three pages, reduce_views
\* returns two pages, the two slots of P1 resolve to one identifier, which a
\* returned page has, and one page in all was removed.
C7_ScenarioA ==
    (Cardinality(Pages) = 3 /\ NoPageTwice /\ run = 1) =>
        \A a, b, c \in Pages :
            IsScenarioA(a, b, c) =>
                /\ ~Raised
                /\ pc = "done" =>
                    /\ Len(result) = 2
                    /\ total_views_removed = 1
                    /\ PageId(actions[a][1]) = PageId(actions[a][2])
                    /\ \E r \in Range(result) : PageId(r) = PageId(actions[a][1])

\* C7 witness: reduce_views has returned on scenario A with P1 listed last.
C7_Witness ==
    /\ pc = "done"
    /\ run = 1
    /\ NoPageTwice
    /\ Cardinality(Pages) = 3
    /\ \E a, b, c \in Pages : IsScenarioA(a, b, c) /\ a > b /\ a > c

----------------------------------------------------------------------------
(* C8: scenario C *)

IsScenarioC == content = ScenarioCContent /\ actions = ScenarioCActions

Upstream == 1..ScenarioCSize
Terminal == (ScenarioCSize + 1)..(2 * ScenarioCSize)

\* The pages of a list of wrappers.
PagesOf(list) == {game_views[w] : w \in Range(list)}

\* C8: on scenario C the first pass keeps every upstream page and one
\* terminal page, and leaves every upstream page with the fingerprint of its
\* current trace; reduce_views returns after two passes when multipass is
\* on and after one when it is off, having removed ScenarioCSize - 1 pages in
\* both cases, none of them an upstream page.
C8_ScenarioC ==
    (IsScenarioC /\ run = 1) =>
        /\ ~Raised
        /\ (EndOfPass /\ pass_number = 1) =>
            /\ Upstream \subseteq PagesOf(filtered_fp_pages)
            /\ Cardinality(PagesOf(filtered_fp_pages) \cap Terminal) = 1
            /\ \A w \in Range(filtered_fp_pages) :
                   fingerprint[w] = compute_fingerprint(page_id_src, own_page_id, game_views[w])
            /\ \A p, q \in Upstream : RenderTrace(p) = RenderTrace(q) => p = q
        /\ pc = "done" =>
            /\ pass_number - 1 = (IF multipass THEN 2 ELSE 1)
            /\ total_views_removed = ScenarioCSize - 1
            /\ Upstream \subseteq Range(result)
            /\ Len(result) = ScenarioCSize + 1

\* C8 witness: reduce_views has returned on scenario C after a second pass.
C8_Witness ==
    /\ IsScenarioC
    /\ run = 1
    /\ pc = "done"
    /\ multipass
    /\ pass_number = 3

----------------------------------------------------------------------------
(* C9: pairwise distinct content *)

DistinctContent == \A p, q \in Pages : content[p] = content[q] => p = q

\* C9: when the pages of the input have pairwise distinct content,
\* reduce_views raises nothing, redirects no page, runs one pass and returns
\* the input list, with a removal count of 0.
C9_DistinctContentUntouched ==
    (DistinctContent /\ NoPageTwice) =>
        /\ ~Raised
        /\ \A p \in Pages : page_id_src[p] = 0
        /\ Stopped => (pass_number = 2 /\ total_views_removed = 0)
        /\ pc = "done" => result = game_views

\* The same for the lists that hold at least one page.
C9_NonEmpty == Len(game_views) > 0 => C9_DistinctContentUntouched

----------------------------------------------------------------------------
(* C10: self-loop safety *)

\* The only non-empty action slot of p leads to p.
SelfLoop(p) ==
    /\ Cardinality({s \in Slots : actions[p][s] # 0}) = 1
    /\ \E s \in Slots : actions[p][s] = p

\* C10 as claimed: a self-looping page never makes the assertion fail and
\* is never redirected.
C10_SelfLoopUntouched ==
    NoPageTwice =>
        /\ pc # "AssertionError"
        /\ \A p \in Pages : SelfLoop(p) => page_id_src[p] = 0

\* C10 amended: a self-looping page never makes the assertion fail, and it
\* is redirected only to a representative of the same content that links,
\* through the slot of the self-loop, to a page whose current identifier is
\* that of the self-looping page.
C10_SelfLoopMergedOnlyIntoItsSource ==
    NoPageTwice =>
        /\ pc # "AssertionError"
        /\ (InLoop /\ existing_matching_gv # 0 /\ SelfLoop(game_view)) =>
               /\ existing_matching_gv # game_view
               /\ content[existing_matching_gv] = content[game_view]
               /\ \A s \in Slots :
                      actions[game_view][s] = game_view =>
                          /\ actions[existing_matching_gv][s] # 0
                          /\ PageId(actions[existing_matching_gv][s]) = PageId(game_view)

\* C10 witness: a self-looping page is about to be merged while another
\* self-looping page of the same content has been kept.
C10_Witness ==
    /\ NoPageTwice
    /\ InLoop
    /\ existing_matching_gv # 0
    /\ SelfLoop(game_view)
    /\ \E w \in Range(filtered_fp_pages) :
        /\ SelfLoop(game_views[w])
        /\ game_views[w] # game_view
        /\ content[game_views[w]] = content[game_view]

----------------------------------------------------------------------------
(* C11: the fatal invariant violation *)

\* The page the loop is at matches a representative that has its own
\* current identifier.
MatchesItself ==
    /\ InLoop
    /\ existing_matching_gv # 0
    /\ PageId(game_view) = PageId(existing_matching_gv)

\* C11: when the page under evaluation matches a representative of the same
\* current identifier, the only step reduce_views takes is to raise the
\* AssertionError: no identifier, fingerprint, list, map or counter changes,
\* nothing is returned, and no step follows the exception.
C11_AssertAborts ==
    [][/\ pc # "AssertionError"
       /\ MatchesItself =>
              /\ pc' = "AssertionError"
              /\ UNCHANGED <<page_id_src, own_page_id, fingerprint,
                             fingerprinted_pages, filtered_fp_pages,
                             gv_per_page_fingerprint, idx, pass_number,
                             total_views_removed, views_removed, result, run>>]_vars

\* C11 witness: the assertion has failed on a page listed twice, before the
\* end of the pass.
C11_Witness ==
    /\ pc = "AssertionError"
    /\ ~NoPageTwice
    /\ idx <= Len(fingerprinted_pages)
    /\ pass_number = 1
    /\ result = <<>>

----------------------------------------------------------------------------
(* C12: determinism *)

\* How many of the steps of reduce_views can be taken in the current state.
\* Each step gives every variable by an equation over the current state, so
\* a state with at most one step that can be taken has at most one
\* successor.
StepsEnabled ==
    LET en == <<ENABLED Begin, ENABLED Keep, ENABLED Merge, ENABLED AssertFail,
                ENABLED EndPass, ENABLED Return, ENABLED Rerun>>
    IN  Cardinality({i \in DOMAIN en : en[i]})

----------------------------------------------------------------------------
(* C13: fingerprint freshness *)

\* The stored fingerprint of wrapper w is the fingerprint of the current
\* trace of its page.
Fresh(w) ==
    fingerprint[w] = compute_fingerprint(page_id_src, own_page_id, game_views[w])

\* C13: at the end of every pass the stored fingerprint of every surviving
\* page is the fingerprint computed from its current trace.
C13_FingerprintFresh ==
    (EndOfPass /\ NoPageTwice) => \A w \in Range(filtered_fp_pages) : Fresh(w)

\* Up to the end of the first pass the stored fingerprint of every page that
\* has not been dropped is fresh.
C13_FreshInFirstPass ==
    (pc = "for" /\ pass_number = 1 /\ NoPageTwice) =>
        \A w \in Range(fingerprinted_pages) : page_id_src[game_views[w]] = 0 => Fresh(w)

----------------------------------------------------------------------------
(* C14: the map of a pass and the stored fingerprints *)

\* Wrapper w was fingerprinted again, after its own evaluation in this pass,
\* by the merge of a page it links to.
RefingerprintedSince(w) ==
    \E m \in Range(fingerprinted_pages) \ Range(filtered_fp_pages) :
        /\ PosOf(fingerprinted_pages, m) > PosOf(fingerprinted_pages, w)
        /\ PosOf(fingerprinted_pages, m) < idx
        /\ w \in Range(incoming_pages[m])

----------------------------------------------------------------------------
(* C15: the stopping rule *)

\* C15: the step that ends a pass counts removed = (length of the working
\* list) - (length of the filtered list); it starts another pass, on the
\* filtered list, if and only if multipass is on and removed is at least
\* MIN_REMOVED_VIEWS_TO_GO_ON, and leaves the loop otherwise.  With
\* multipass off exactly one pass is run.
C15_StoppingRule ==
    /\ [](~multipass => (pass_number <= 2 /\ (Stopped => pass_number = 2)))
    /\ [][EndOfPass =>
             LET removed == Len(fingerprinted_pages) - Len(filtered_fp_pages)
             IN  /\ views_removed' = removed
                 /\ fingerprinted_pages' = filtered_fp_pages
                 /\ IF multipass /\ removed >= MIN_REMOVED_VIEWS_TO_GO_ON
                    THEN /\ pc' = "for"
                         /\ pass_number' = pass_number + 1
                         /\ idx' = 1
                         /\ filtered_fp_pages' = <<>>
                         /\ gv_per_page_fingerprint' = <<>>
                    ELSE pc' = "return"]_vars

\* C15 witness: a second pass has started, the first having removed at least
\* MIN_REMOVED_VIEWS_TO_GO_ON pages.
C15_Witness ==
    /\ pc = "for"
    /\ pass_number = 2
    /\ idx = 1
    /\ multipass
    /\ views_removed >= MIN_REMOVED_VIEWS_TO_GO_ON
    /\ Len(fingerprinted_pages) = Len(game_views) - views_removed

----------------------------------------------------------------------------
(* C16: the frame of a merge step *)

\* C16: the step that processes one page of a pass leaves content, actions
\* and assigned identifiers alone; it redirects no page but the processed
\* one, and that one only when it is dropped; it changes the current
\* identifier of no other page of the working list; it changes the stored
\* fingerprint of no wrapper outside the incoming list of the processed one.
\* Every page of the list returned for an input without a page listed twice
\* has the identifier it was assigned.
C16_MergeFrame ==
    /\ []((pc = "done" /\ NoPageTwice) =>
              \A r \in Range(result) :
                  page_id_src[r] = 0 /\ PageId(r) = assign_page_ids(Pages)[r])
    /\ [][InLoop =>
             /\ content' = content
             /\ actions' = actions
             /\ own_page_id' = own_page_id
             /\ incoming_pages' = incoming_pages
             /\ \A p \in Pages :
                    page_id_src'[p] # page_id_src[p] =>
                        /\ p = game_view
                        /\ fp_page \notin Range(filtered_fp_pages')
             /\ \A w \in Range(fingerprinted_pages) :
                    game_views[w] # game_view =>
                        page_id(page_id_src', own_page_id', game_views[w]) = PageId(game_views[w])
             /\ \A w \in DOMAIN fingerprint :
                    fingerprint'[w] # fingerprint[w] => w \in Range(incoming_pages[fp_page])]_vars

\* C16 witness: reduce_views has returned after a merge that changed the
\* stored fingerprint of a returned page.
C16_Witness ==
    /\ pc = "done"
    /\ run = 1
    /\ NoPageTwice
    /\ \E p \in Pages : page_id_src[p] # 0
    /\ \E w \in Range(fingerprinted_pages) :
           fingerprint[w] # compute_fingerprint([p \in Pages |-> 0], own_page_id, game_views[w])

----------------------------------------------------------------------------
(* C17: the reference graph *)

\* C17: for a first call on a list without a page listed twice,
\* build_fingerprinted_pages yields one wrapper per page of the list, in
\* list order, each with the fingerprint of its page, and the wrapper of p
\* is in the incoming list of the wrapper of q if and only if an action
\* slot of p leads to q.
C17_ReferenceGraph ==
    (run = 1 /\ NoPageTwice /\ pc \notin {"start", "KeyError"}) =>
        /\ DOMAIN incoming_pages = DOMAIN game_views
        /\ DOMAIN fingerprint = DOMAIN game_views
        /\ (pass_number = 1 /\ pc = "for") => fingerprinted_pages = Identity(Len(game_views))
        /\ (pass_number = 1 /\ pc = "for" /\ idx = 1) => \A w \in DOMAIN game_views : Fresh(w)
        /\ \A w, v \in DOMAIN game_views :
               w \in Range(incoming_pages[v]) <=>
                   \E s \in Slots : actions[game_views[w]][s] = game_views[v]

\* C17 witness: the first pass starts with a page that is in its own
\* incoming list and a page that another page links to through both slots.
C17_Witness ==
    /\ run = 1
    /\ NoPageTwice
    /\ pc = "for" /\ pass_number = 1 /\ idx = 1
    /\ \E w \in DOMAIN game_views : w \in Range(incoming_pages[w])
    /\ \E w, v \in DOMAIN game_views : w # v /\ incoming_pages[v] = <<w, w>>

----------------------------------------------------------------------------
(* C18: removal accounting *)

\* C18: once a pass has ended (and all through the next one),
\* total_views_removed plus the length of the working list is the length of
\* the input list; and the total reported on return is the length of the
\* input list minus the length of the returned list.
C18_RemovalAccounting ==
    /\ (pc \in {"for", "return", "done", "AssertionError"}) =>
           total_views_removed + Len(fingerprinted_pages) = Len(game_views)
    /\ pc = "done" => total_views_removed = Len(game_views) - Len(result)

\* C18 witness: reduce_views has returned after a second pass that removed
\* pages, but fewer than the threshold.
C18_Witness ==
    /\ pc = "done"
    /\ run = 1
    /\ pass_number = 3
    /\ views_removed > 0
    /\ views_removed < MIN_REMOVED_VIEWS_TO_GO_ON
    /\ total_views_removed > views_removed

----------------------------------------------------------------------------
(* C19: distinct identifiers in the working list *)

\* The wrappers of the working list that the pass has not dropped: those it
\* kept and those it has not reached.
NotDropped ==
    Range(filtered_fp_pages) \cup
        {fingerprinted_pages[i] : i \in {j \in DOMAIN fingerprinted_pages : j >= idx}}

\* C19: for an input list without a page listed twice, the assertion never
\* fails; no page that a pass has not dropped is redirected; and at the
\* start of every pass the pages of the working list have pairwise distinct
\* current identifiers.
C19_DistinctIdentifiers ==
    NoPageTwice =>
        /\ pc # "AssertionError"
        /\ pc = "for" => \A w \in NotDropped : page_id_src[game_views[w]] = 0
        /\ (pc = "for" /\ idx = 1) =>
               \A w, v \in Range(fingerprinted_pages) :
                   PageId(game_views[w]) = PageId(game_views[v]) => w = v

\* C19 witness: a second pass starts on a list that holds two pages of one
\* content that link to each other, a page having been redirected to one of
\* them.
C19_Witness ==
    /\ NoPageTwice
    /\ pc = "for" /\ pass_number = 2 /\ idx = 1
    /\ \E w, v \in Range(fingerprinted_pages) :
           LET a == game_views[w]
               b == game_views[v]
           IN  /\ a # b
               /\ content[a] = content[b]
               /\ a \in Range(actions[b])
               /\ b \in Range(actions[a])
               /\ \E d \in Pages : page_id_src[d] = a

----------------------------------------------------------------------------
(* C20: the link handles of the recorder *)

\* The handles returned so far are pairwise distinct.
HandlesDistinct ==
    \A i, j \in DOMAIN handles : handles[i] = handles[j] => i = j

\* Every recorded link event carries the page its caller bound to the
\* handle of that link.
LinkEventsAsIntended ==
    /\ Len(fake_pdf.calls) = Len(expected)
    /\ \A i \in DOMAIN expected : fake_pdf.calls[i][3] = expected[i]

\* C20: for any sequence of add_link, set_link and link calls, every
\* add_link returns a handle no earlier add_link returned, and every link
\* event carries the target that was bound for its own link.
C20_LinkHandles ==
    pc \in {"recorder", "KeyError"} => (HandlesDistinct /\ LinkEventsAsIntended)

\* For the callers that bind every handle before they ask for the next one
\* (as render_page does), the same holds.
C20_DisciplinedCallers ==
    (pc \in {"recorder", "KeyError"} /\ disciplined) =>
        (HandlesDistinct /\ LinkEventsAsIntended)

====
